---- MODULE Spec2Model ----
(***************************************************************************)
(* Model of the session store and client facade of instagram-downloader    *)
(* (src/instagram_downloader/client.py), of the remove command of its CLI  *)
(* (src/manage_sessions.py) and of its standalone session check            *)
(* (src/test_session.py).                                                  *)
(*                                                                         *)
(* Strings are sequences of one-character strings, so that str.lower() and *)
(* the file-name construction are computed, not assumed.  Python's None is *)
(* the one-element sequence <<"None">>, which is no string of characters.  *)
(* A session directory is a partial function from file names to parsed     *)
(* JSON documents.  The wall clock is the natural number `now`; it never   *)
(* runs backwards and is capped at MaxTime.                                *)
(***************************************************************************)
EXTENDS Integers, Sequences, FiniteSets, TLC

VARIABLES
    files,            \* session directory: file name -> JSON document
    now,              \* time.time()
    username,         \* self.username
    session_path,     \* self.session_path (file name inside session_dir)
    is_logged_in,     \* self.is_logged_in
    current_username, \* self.current_username
    page,             \* self.page is not None
    browser,          \* self.browser is not None
    playwright,       \* self.playwright is not None
    pc,               \* "idle", or "loop" inside manual_login's while loop
    retry_count,      \* manual_login: retry_count
    max_retries,      \* manual_login: max_retries argument
    attempts,         \* number of _init_browser calls of the current manual_login
    outcome,          \* how the last loop iteration of manual_login ended
    op,               \* the operation that ran last
    arg,              \* its username argument (remove_session) or None
    result,           \* its return value: "none", "True" or "False"; "raise"
                      \* when it raised; the exit code of the session check
    sessions,         \* list_sessions: the returned list
    read_order,       \* list_sessions: the entries in the order they were read
    typed             \* the CLI remove command: the answers typed at its prompts

vars == <<files, now, username, session_path, is_logged_in, current_username,
          page, browser, playwright, pc, retry_count, max_retries, attempts,
          outcome, op, arg, result, sessions, read_order, typed>>

client == <<username, session_path, is_logged_in, current_username>>
handles == <<page, browser, playwright>>
login == <<pc, retry_count, max_retries, attempts, outcome>>
listing == <<sessions, read_order, typed>>

(***************************************************************************)
(* Bounds                                                                  *)
(***************************************************************************)
MaxTime == 2
MaxRetries == 2
MaxCookies == 2

(***************************************************************************)
(* Strings                                                                 *)
(***************************************************************************)
None == <<"None">>

\* Python truthiness of an Optional[str]
Truthy(s) == s # None /\ s # <<>>

LowerChar(c) ==
    CASE c = "A" -> "a"
      [] c = "B" -> "b"
      [] c = "D" -> "d"
      [] c = "Q" -> "q"
      [] c = "Y" -> "y"
      [] OTHER -> c

\* str.lower()
LowerIdentity(s) == s
Lower(s) == [i \in DOMAIN s |-> LowerChar(s[i])]

SessionSuffix == <<"_", "s", "e", "s", "s", "i", "o", "n", ".", "j", "s", "o", "n">>
DefaultName == <<"d", "e", "f", "a", "u", "l", "t">>
DefaultSessionFile == DefaultName \o SessionSuffix

\* f"{username.lower()}_session.json"
UserSessionFile(u) == Lower(u) \o SessionSuffix

\* __init__: the session path of a client constructed with username u
SessionPathFor(u) == IF Truthy(u) THEN UserSessionFile(u) ELSE DefaultSessionFile

\* the usernames the model passes to the constructor and to remove_session,
\* and the usernames the profile page can show
Al == <<"A", "l">>
al == <<"a", "l">>
Bo == <<"b", "o">>
DefaultUpper == <<"D", "e", "f", "a", "u", "l", "t">>
ConstructorUsernames == {None, Al, DefaultName}
PageUsernames == {None, al}
RemoveUsernames == {Al, Bo, DefaultUpper}

(***************************************************************************)
(* JSON documents                                                          *)
(***************************************************************************)
\* json.dump of an Optional[str], and json.load of the value under a key
\* (t = "absent": the key is not in the object, dict.get gives None)
JsonDumpStr(s) == IF s = None THEN [t |-> "null", v |-> <<>>] ELSE [t |-> "string", v |-> s]
JsonGetStr(j) == IF j.t = "string" THEN j.v ELSE None

\* a cookie of the storage state; has_expires = FALSE: no "expires" key;
\* is_dict = FALSE: the list entry is no JSON object, cookie.get raises
Cookie(name, has_expires, expires) ==
    [name |-> name, has_expires |-> has_expires, expires |-> expires, is_dict |-> TRUE]

NotACookie == [Cookie("", FALSE, 0) EXCEPT !.is_dict = FALSE]

\* cookie.get('expires', 0)
CookieExpires(cookie) == IF cookie.has_expires THEN cookie.expires ELSE 0

\* the metadata block {username, created_at, last_used};
\* last_used_is_number = FALSE: the value under "last_used" is JSON null
Metadata(u, created, has_last, last) ==
    [username |-> u, created_at |-> created, has_last_used |-> has_last, last_used |-> last,
     last_used_is_number |-> TRUE]

NoMetadata == Metadata([t |-> "absent", v |-> <<>>], 0, FALSE, 0)

\* a session file: the parsed JSON object and the file's st_mtime.
\*   json                   what json.load gives: "object", "array", "number",
\*                          or "malformed" when it raises JSONDecodeError
\*   has_storage_state      the object has the key "storage_state"
\*   storage_state_is_dict  and the value under it is an object
\*   has_cookies_key        the object has a top-level key "cookies"
\*   has_origins_key        the object has a top-level key "origins"
\*   cookies                the cookie list, under storage_state or, in the
\*                          bare shape, under the top-level key
\*   has_metadata           the object has the key "metadata"
\*   metadata_is_dict       and the value under it is an object
SessionFile(has_ss, cookies, has_md, md, mtime) ==
    [json |-> "object",
     has_storage_state |-> has_ss, storage_state_is_dict |-> TRUE,
     has_cookies_key |-> FALSE, has_origins_key |-> FALSE, cookies |-> cookies,
     has_metadata |-> has_md, metadata_is_dict |-> TRUE, metadata |-> md, mtime |-> mtime]

\* files that are no session record of the wrapped shape
NotJson(kind, mtime) ==
    [SessionFile(FALSE, <<>>, FALSE, NoMetadata, mtime) EXCEPT !.json = kind]
BareFile(cookies, has_origins, mtime) ==
    [SessionFile(FALSE, cookies, FALSE, NoMetadata, mtime)
        EXCEPT !.has_cookies_key = TRUE, !.has_origins_key = has_origins]

(***************************************************************************)
(* The file system and the clock                                           *)
(***************************************************************************)
\* Path.exists()
Exists(f) == f \in DOMAIN files

\* open(f, 'w') + json.dump: f now holds doc, every other file is untouched
WriteFile(fs, f, doc) == [g \in DOMAIN fs \cup {f} |-> IF g = f THEN doc ELSE fs[g]]

\* Path.unlink()
UnlinkAlsoDefault(fs, f) == [g \in DOMAIN fs \ {f, DefaultSessionFile} |-> fs[g]]
Unlink(fs, f) == [g \in DOMAIN fs \ {f} |-> fs[g]]

\* the values a later time.time() call of the same handler can return
Later(t) == {x \in {t, t + 1} : x <= MaxTime}

\* the locals of manual_login are gone once another operation runs
NoLogin ==
    /\ pc' = "idle" /\ retry_count' = 0 /\ max_retries' = 0 /\ attempts' = 0
    /\ outcome' = "none"

(***************************************************************************)
(* InstagramClient.__init__                                                *)
(***************************************************************************)
Construct(u) ==
    /\ pc = "idle"
    /\ NoLogin
    /\ username' = u
    /\ session_path' = SessionPathFor(u)
    /\ page' = FALSE /\ browser' = FALSE /\ playwright' = FALSE
    /\ is_logged_in' = FALSE
    /\ current_username' = None
    /\ op' = "construct" /\ arg' = u /\ result' = "none"
    /\ UNCHANGED <<files, now, listing>>

(***************************************************************************)
(* InstagramClient._init_browser and _cleanup_browser                      *)
(***************************************************************************)
\* _cleanup_browser on handles h = <<page, browser, playwright>>; `raising` is
\* the set of handles whose close()/stop() raises.  Each handle is set to None
\* only after its close call returned.
CleanupBrowser(h, raising) ==
    << h[1] /\ "page" \in raising,
       h[2] /\ "browser" \in raising,
       h[3] /\ "playwright" \in raising >>

\* _init_browser: the handles assigned before the step `stage` raised
\*   start    sync_playwright().start() raised: nothing was assigned
\*   launch   launch raised: playwright was assigned
\*   context  new_context or new_page raised: playwright and browser were
\*   page     set_default_timeout raised: the page was assigned as well
\*   ok       nothing raised
InitStages == {"start", "launch", "context", "page", "ok"}
InitBrowser(h, stage) ==
    CASE stage = "start"   -> h
      [] stage = "launch"  -> <<h[1], h[2], TRUE>>
      [] stage = "context" -> <<h[1], TRUE, TRUE>>
      [] stage = "page"    -> <<TRUE, TRUE, TRUE>>
      [] stage = "ok"      -> <<TRUE, TRUE, TRUE>>

\* the handles of h that are referenced, whose close()/stop() is called
Referenced(h) ==
    (IF h[1] THEN {"page"} ELSE {}) \cup (IF h[2] THEN {"browser"} ELSE {})
        \cup (IF h[3] THEN {"playwright"} ELSE {})

\* the sets of close()/stop() calls that can raise in one _cleanup_browser on
\* handles h: none when closing is taken to succeed, else any of the calls made
Raising(may_raise, h) == IF may_raise THEN SUBSET Referenced(h) ELSE {{}}

(***************************************************************************)
(* InstagramClient.verify_login_status, on a page that is not redirected   *)
(* to the login page.  extracted is the username read from the page (None  *)
(* when none was found or reading it raised).                              *)
(***************************************************************************)
VerifiedCurrentUsername(extracted, uname, cur) ==
    IF Truthy(extracted) THEN extracted
    ELSE IF Truthy(uname) THEN uname ELSE cur

VerifiedUsername(extracted, uname) ==
    IF Truthy(extracted) /\ ~Truthy(uname) THEN extracted ELSE uname

VerifiedSessionPath(extracted, uname, path) ==
    IF Truthy(extracted) /\ ~Truthy(uname) THEN UserSessionFile(extracted) ELSE path

\* what the browser does when verify_login_status navigates to the profile
\*   profile  the profile page is shown
\*   login    the browser is redirected to the login page
\*   raises   page.goto raises
PageAnswers == {"profile", "login", "raises"}

\* a call of the public method on an idle client: without a page, after a
\* redirect and after an exception it returns False and changes nothing
VerifyLoginStatus(answer, extracted) ==
    /\ pc = "idle"
    /\ NoLogin
    /\ op' = "verify_login_status" /\ arg' = None
    /\ IF ~page \/ answer # "profile"
       THEN result' = "False" /\ UNCHANGED client
       ELSE /\ result' = "True"
            /\ current_username' = VerifiedCurrentUsername(extracted, username, current_username)
            /\ username' = VerifiedUsername(extracted, username)
            /\ session_path' = VerifiedSessionPath(extracted, username, session_path)
            /\ is_logged_in' = TRUE
    /\ UNCHANGED <<files, now, handles, listing>>

(***************************************************************************)
(* InstagramClient._save_session                                           *)
(***************************************************************************)
\* what page.context.storage_state() can return at time t: the cookies of a
\* login, whose sessionid cookie lives CookieLifetime longer
CookieLifetime == 2
BrowserStorageStates(t) ==
    { <<Cookie("csrftoken", TRUE, t + CookieLifetime), Cookie("sessionid", TRUE, t + CookieLifetime)>> }

\* session_data of _save_session
SessionData(storage_state, cur, created, last) ==
    SessionFile(TRUE, storage_state, TRUE,
                Metadata(JsonDumpStr(cur), created, TRUE, last), last)

(***************************************************************************)
(* InstagramClient.manual_login                                            *)
(***************************************************************************)
ManualLoginCall(m) ==
    /\ pc = "idle"
    /\ pc' = "loop"
    /\ retry_count' = 0
    /\ max_retries' = m
    /\ attempts' = 0
    /\ outcome' = "none"
    /\ op' = "manual_login" /\ arg' = None /\ result' = "none"
    /\ UNCHANGED <<files, now, client, handles, listing>>

\* the ways one iteration of the while loop ends without a saved session
\*   init_failed      _init_browser returned False
\*   playwright_error goto or wait_for_url raised PlaywrightError
\*   timeout          wait_for_url raised TimeoutError, a PlaywrightError
\*   other_exception  any other exception
\*   login_url        "accounts/login" is in page.url
\*   verify_failed    verify_login_status returned False
\*   success          verify_login_status returned True
IsPlaywrightError(o) == o \in {"playwright_error", "timeout"}

\* does the loop run again after an iteration that ended with o
RetriesAlsoAfterVerify(o) == o = "init_failed" \/ IsPlaywrightError(o) \/ o = "verify_failed"
Retries(o) == o = "init_failed" \/ IsPlaywrightError(o)

\* retry_count after an iteration that ended with o
RetryCountStuck(o, rc) == IF o = "init_failed" THEN rc + 1 ELSE rc
NextRetryCount(o, rc) == IF Retries(o) THEN rc + 1 ELSE rc

\* the common end of an iteration: `finally: self._cleanup_browser()` on
\* handles h, then the loop is re-entered or manual_login returns
EndIteration(o, h, raising, res) ==
    /\ outcome' = o
    /\ attempts' = attempts + 1
    /\ retry_count' = NextRetryCount(o, retry_count)
    /\ LET c == CleanupBrowser(h, raising)
       IN page' = c[1] /\ browser' = c[2] /\ playwright' = c[3]
    /\ IF Retries(o)
       THEN pc' = "loop" /\ result' = "none"
       ELSE pc' = "idle" /\ result' = res
    /\ UNCHANGED <<max_retries, op, arg, listing>>

\* an iteration in which _init_browser fails at `stage`: it cleans up (the
\* close calls in raising1 raise), and the finally clause cleans up again
\* (those in raising2 raise)
AttemptInitFails(stage, may_raise) ==
    /\ pc = "loop" /\ retry_count < max_retries
    /\ stage # "ok"
    /\ LET opened == InitBrowser(<<page, browser, playwright>>, stage)
       IN \E raising1 \in Raising(may_raise, opened) :
            \E raising2 \in Raising(may_raise, CleanupBrowser(opened, raising1)) :
              EndIteration("init_failed", CleanupBrowser(opened, raising1), raising2, "False")
    /\ UNCHANGED <<files, now, client>>

\* an iteration that ends in the browser without a login: an exception of
\* goto/wait_for_url, or the page still on the login URL
AttemptFails(o, raising) ==
    /\ pc = "loop" /\ retry_count < max_retries
    /\ o \in {"playwright_error", "timeout", "other_exception", "login_url"}
    /\ EndIteration(o, InitBrowser(<<page, browser, playwright>>, "ok"), raising, "False")
    /\ UNCHANGED <<files, now, client>>

\* verify_login_status returned False (redirected to the login page, or
\* page.goto raised): nothing of the client changes
AttemptVerifyFails(raising) ==
    /\ pc = "loop" /\ retry_count < max_retries
    /\ EndIteration("verify_failed", InitBrowser(<<page, browser, playwright>>, "ok"), raising, "False")
    /\ UNCHANGED <<files, now, client>>

\* how _save_session ends
\*   saved      the record was written
\*   unopened   storage_state() or open() raised: no file was touched
\*   truncated  open() created or truncated the file and the dump raised: the
\*              file is left with no or half a JSON text
SaveOutcomes == {"saved", "unopened", "truncated"}

\* verify_login_status returned True, then _save_session, whose exceptions
\* are logged and not reported
AttemptSucceeds(extracted, save, raising) ==
    /\ pc = "loop" /\ retry_count < max_retries
    /\ current_username' = VerifiedCurrentUsername(extracted, username, current_username)
    /\ username' = VerifiedUsername(extracted, username)
    /\ session_path' = VerifiedSessionPath(extracted, username, session_path)
    /\ is_logged_in' = TRUE
    /\ CASE save = "saved" ->
              \E ss \in BrowserStorageStates(now), last \in Later(now) :
                 /\ files' = WriteFile(files, session_path',
                                       SessionData(ss, current_username', now, last))
                 /\ now' = last
         [] save = "truncated" ->
              \E last \in Later(now) :
                 /\ files' = WriteFile(files, session_path', NotJson("malformed", last))
                 /\ now' = last
         [] save = "unopened" -> UNCHANGED <<files, now>>
    /\ EndIteration("success", InitBrowser(<<page, browser, playwright>>, "ok"), raising, "True")

\* the while condition is false: "Failed to complete login after ... attempts"
ManualLoginExhausted ==
    /\ pc = "loop" /\ ~(retry_count < max_retries)
    /\ pc' = "idle"
    /\ result' = "False"
    /\ UNCHANGED <<files, now, client, handles, retry_count, max_retries, attempts,
                   outcome, op, arg, listing>>

(***************************************************************************)
(* InstagramClient.load_session                                            *)
(***************************************************************************)
\* `expires > current_time`
NotExpiredOrNow(expires, current_time) == expires >= current_time
NotExpired(expires, current_time) == expires > current_time

\* the for loop over the cookies: the index of the first cookie named
\* sessionid that is not expired, at which the loop breaks; 0 when the loop
\* runs to its end; -1 when it comes to an entry that is no object, on which
\* cookie.get raises
RECURSIVE FirstValidSessionid(_, _, _)
FirstValidSessionid(cookies, i, current_time) ==
    IF i > Len(cookies) THEN 0
    ELSE IF ~cookies[i].is_dict THEN -1
    ELSE IF cookies[i].name = "sessionid"
            /\ NotExpired(CookieExpires(cookies[i]), current_time)
         THEN i
         ELSE FirstValidSessionid(cookies, i + 1, current_time)

\* self.current_username after the metadata of a valid session was read
LoadedUsernameArgFirst(md, uname) ==
    IF Truthy(uname) THEN uname ELSE JsonGetStr(md.username)
LoadedUsername(md, uname) ==
    IF ~Truthy(JsonGetStr(md.username)) /\ Truthy(uname)
    THEN uname
    ELSE JsonGetStr(md.username)

\* session_data["metadata"]["last_used"] = time.time(), then the dump
TouchedKeepsLastUsed(doc, t) == [doc EXCEPT !.mtime = t]
TouchedRestamped(doc, t) ==
    [doc EXCEPT !.metadata.has_last_used = TRUE, !.metadata.last_used = t,
                !.metadata.last_used_is_number = TRUE,
                !.metadata.created_at = t, !.mtime = t]
Touched(doc, t) ==
    [doc EXCEPT !.metadata.has_last_used = TRUE, !.metadata.last_used = t,
                !.metadata.last_used_is_number = TRUE, !.mtime = t]

\* `"storage_state" in session_data`
HasStorageStateOrCookies(session_data) ==
    session_data.has_storage_state \/ session_data.has_cookies_key
HasStorageState(session_data) == session_data.has_storage_state

\* an exception is raised inside the try block of load_session: by json.load
\* on malformed text, by `in` on a number, by .get on a storage_state or on a
\* cookie that is no object, or, once a valid cookie was found, by .get on a
\* metadata value that is no object
LoadRaises(session_data, current_time) ==
    \/ session_data.json \in {"malformed", "number"}
    \/ /\ session_data.json = "object"
       /\ session_data.has_storage_state
       /\ \/ ~session_data.storage_state_is_dict
          \/ FirstValidSessionid(session_data.cookies, 1, current_time) = -1
          \/ /\ FirstValidSessionid(session_data.cookies, 1, current_time) > 0
             /\ session_data.has_metadata
             /\ ~session_data.metadata_is_dict

\* self.is_logged_in after the cookies were scanned without an exception
LoggedInOnRead(was, session_valid) == TRUE
LoggedIn(was, session_valid) == IF session_valid THEN TRUE ELSE was

\* what the operating system does with the write of the new last_used:
\* "written", the dump completes; "unopened", open(..., 'w') is refused;
\* "truncated", open has emptied the file and the dump fails
WriteOutcomes == {"written", "unopened", "truncated"}

\* write names the outcome of the write-back; a call that never comes to the
\* write-back is a call with write = "written". The write-back is inside the
\* try block: when it fails, self.current_username is already assigned, and
\* the except clause returns False before self.is_logged_in is set
LoadSession(write) ==
    /\ pc = "idle"
    /\ NoLogin
    /\ op' = "load_session" /\ arg' = None
    /\ IF ~Exists(session_path)
       THEN /\ write = "written"
            /\ result' = "False"
            /\ UNCHANGED <<files, now, is_logged_in, current_username>>
       ELSE LET session_data == files[session_path]
                session_valid == HasStorageState(session_data)
                                 /\ FirstValidSessionid(session_data.cookies, 1, now) > 0
            IN IF LoadRaises(session_data, now)
               THEN /\ write = "written"
                    /\ result' = "False"
                    /\ UNCHANGED <<files, now, is_logged_in, current_username>>
               ELSE IF session_valid /\ session_data.has_metadata
                    THEN /\ current_username' = LoadedUsername(session_data.metadata, username)
                         /\ \E t \in Later(now) :
                              /\ now' = t
                              /\ CASE write = "written" ->
                                         /\ files' = WriteFile(files, session_path, Touched(session_data, t))
                                         /\ is_logged_in' = LoggedIn(is_logged_in, session_valid)
                                         /\ result' = "True"
                                   [] write = "unopened" ->
                                         /\ files' = files
                                         /\ is_logged_in' = is_logged_in
                                         /\ result' = "False"
                                   [] write = "truncated" ->
                                         /\ files' = WriteFile(files, session_path, NotJson("malformed", t))
                                         /\ is_logged_in' = is_logged_in
                                         /\ result' = "False"
                    ELSE /\ write = "written"
                         /\ result' = IF session_valid THEN "True" ELSE "False"
                         /\ is_logged_in' = LoggedIn(is_logged_in, session_valid)
                         /\ UNCHANGED <<files, now, current_username>>
    /\ UNCHANGED <<username, session_path, handles, listing>>

(***************************************************************************)
(* InstagramClient.remove_session                                          *)
(***************************************************************************)
\* session_file of remove_session(username)
RemovedFile(u) ==
    IF Lower(u) = DefaultName THEN DefaultSessionFile ELSE UserSessionFile(u)

\* refused: the operating system refuses session_file.unlink(), which raises
\* inside the try block, and the except clause returns False
RemoveSession(u, refused) ==
    /\ pc = "idle"
    /\ NoLogin
    /\ op' = "remove_session" /\ arg' = u
    /\ IF ~Exists(RemovedFile(u))
       THEN ~refused /\ result' = "False" /\ files' = files
       ELSE IF refused
            THEN result' = "False" /\ files' = files
            ELSE result' = "True" /\ files' = Unlink(files, RemovedFile(u))
    /\ UNCHANGED <<now, client, handles, listing>>

\* time passes between two operations
Tick ==
    /\ pc = "idle"
    /\ now < MaxTime
    /\ now' = now + 1
    /\ UNCHANGED <<files, client, handles, login, op, arg, result, listing>>

(***************************************************************************)
(* InstagramClient.list_sessions                                           *)
(***************************************************************************)
\* str.endswith
EndsWith(s, suffix) ==
    /\ Len(s) >= Len(suffix)
    /\ SubSeq(s, Len(s) - Len(suffix) + 1, Len(s)) = suffix

\* str.replace(sub, ''): every occurrence of sub, left to right, is dropped
RECURSIVE Replaced(_, _)
Replaced(s, sub) ==
    IF Len(s) < Len(sub) THEN s
    ELSE IF SubSeq(s, 1, Len(sub)) = sub
         THEN Replaced(SubSeq(s, Len(sub) + 1, Len(s)), sub)
         ELSE <<Head(s)>> \o Replaced(Tail(s), sub)

\* session_dir_path.glob("*_session.json"), as a set
GlobSessionFiles(fs) == {f \in DOMAIN fs : EndsWith(f, SessionSuffix)}

\* the orders in which glob can yield a set of files
Orders(S) == {o \in [1..Cardinality(S) -> S] : \A i, j \in DOMAIN o : i # j => o[i] # o[j]}

\* filename_username
FilenameUsername(file_name) ==
    IF EndsWith(file_name, SessionSuffix)
    THEN IF Replaced(file_name, SessionSuffix) = DefaultName
         THEN None
         ELSE Replaced(file_name, SessionSuffix)
    ELSE None

\* the placeholder shown when no username is known
UnknownUsername == <<"?">>

\* the entry appended for session_file
SessionEntry(fs, session_file, current_time) ==
    LET session_data == fs[session_file]
        md == session_data.metadata
        metadata_username == IF session_data.has_metadata THEN JsonGetStr(md.username) ELSE None
        found == IF Truthy(metadata_username) THEN metadata_username
                 ELSE FilenameUsername(session_file)
    IN [username   |-> IF Truthy(found) THEN found ELSE UnknownUsername,
        file_path  |-> session_file,
        file_name  |-> session_file,
        created_at |-> IF session_data.has_metadata THEN md.created_at ELSE session_data.mtime,
        last_used  |-> IF session_data.has_metadata
                       THEN (IF md.has_last_used THEN md.last_used ELSE 0)
                       ELSE session_data.mtime,
        last_used_is_number |-> (session_data.has_metadata /\ md.has_last_used)
                                    => md.last_used_is_number,
        is_valid   |-> session_data.has_storage_state
                       /\ FirstValidSessionid(session_data.cookies, 1, current_time) > 0]

\* an exception is raised inside the try block of the loop over session_files,
\* and the file is left out: by json.load on malformed text, by `in` on a
\* number, by .get on a metadata or storage_state value or on a cookie that is
\* no object
EntryRaises(session_data, current_time) ==
    \/ session_data.json \in {"malformed", "number"}
    \/ /\ session_data.json = "object"
       /\ \/ session_data.has_metadata /\ ~session_data.metadata_is_dict
          \/ /\ session_data.has_storage_state
             /\ \/ ~session_data.storage_state_is_dict
                \/ FirstValidSessionid(session_data.cookies, 1, current_time) = -1

\* sorted(sessions, key=last_used, reverse=True): a stable sort, so an entry
\* goes behind every entry already placed whose key is not smaller
InsertBeforeEqual(sorted, e) ==
    LET k == Cardinality({i \in DOMAIN sorted : sorted[i].last_used > e.last_used})
    IN SubSeq(sorted, 1, k) \o <<e>> \o SubSeq(sorted, k + 1, Len(sorted))
InsertDescending(sorted, e) ==
    LET k == Cardinality({i \in DOMAIN sorted : sorted[i].last_used >= e.last_used})
    IN SubSeq(sorted, 1, k) \o <<e>> \o SubSeq(sorted, k + 1, Len(sorted))

RECURSIVE SortedDescending(_)
SortedDescending(entries) ==
    IF entries = <<>> THEN <<>>
    ELSE InsertDescending(SortedDescending(SubSeq(entries, 1, Len(entries) - 1)),
                          entries[Len(entries)])

\* the existing files of session_files, in order
ExistingFiles(fs, session_files) == SelectSeq(session_files, LAMBDA f : f \in DOMAIN fs)

\* the try block of the loop comes to `current_time = time.time()`
ReadsClock(session_data) ==
    /\ session_data.json = "object"
    /\ ~(session_data.has_metadata /\ ~session_data.metadata_is_dict)
    /\ session_data.has_storage_state
    /\ session_data.storage_state_is_dict

\* the clock is read once for each file that comes to the cookie check: the
\* first reading is t when first holds, and no reading is earlier than the
\* one before it. A file that does not read the clock keeps the last reading
RECURSIVE ClockReadings(_, _, _, _)
ClockReadings(fs, session_files, t, first) ==
    IF session_files = <<>> THEN {<<>>}
    ELSE IF ~ReadsClock(fs[Head(session_files)])
         THEN {<<t>> \o r : r \in ClockReadings(fs, Tail(session_files), t, first)}
         ELSE UNION {{<<x>> \o r : r \in ClockReadings(fs, Tail(session_files), x, FALSE)} :
                        x \in IF first THEN {t} ELSE Later(t)}

\* the clock after the loop
LastReading(times, t) == IF times = <<>> THEN t ELSE times[Len(times)]

\* the entries appended for session_files, in order, when the clock reads
\* times[i] in the iteration of session_files[i]
Entries(fs, session_files, times) ==
    LET read == SelectSeq([i \in DOMAIN session_files |-> i],
                          LAMBDA i : ~EntryRaises(fs[session_files[i]], times[i]))
    IN [k \in DOMAIN read |-> SessionEntry(fs, session_files[read[k]], times[read[k]])]

\* the final sorted() is outside every try block: comparing a last_used that
\* is None with any other key raises TypeError
SortRaises(entries) ==
    /\ Len(entries) >= 2
    /\ \E i \in DOMAIN entries : ~entries[i].last_used_is_number

\* result = "raise": the call raised instead of returning
ListSessions ==
    /\ pc = "idle"
    /\ NoLogin
    /\ op' = "list_sessions" /\ arg' = None
    /\ \E globbed \in Orders(GlobSessionFiles(files)) :
         LET session_files == ExistingFiles(files, globbed \o <<DefaultSessionFile>>)
         IN \E times \in ClockReadings(files, session_files, now, TRUE) :
              LET entries == Entries(files, session_files, times)
              IN /\ read_order' = entries
                 /\ now' = LastReading(times, now)
                 /\ IF SortRaises(entries)
                    THEN result' = "raise" /\ sessions' = <<>>
                    ELSE result' = "none" /\ sessions' = SortedDescending(entries)
    /\ UNCHANGED <<files, client, handles, typed>>

(***************************************************************************)
(* src/test_session.py: the standalone session check                       *)
(***************************************************************************)
SessionJson == <<"s", "e", "s", "s", "i", "o", "n", ".", "j", "s", "o", "n">>

\* the two files test_session checks: ~/.instagram_downloader/session.json,
\* which is outside every session directory and is keyed by its path, and
\* <cwd>/sessions/session.json, a file of the session directory of a client
\* that uses the project directory
HomeSessionPath == <<"~", "/">> \o SessionJson
ProjectSessionPath == SessionJson

\* check_session_file(path)
CheckSessionFile(fs, path) ==
    /\ path \in DOMAIN fs
    /\ fs[path].json # "malformed"
    /\ fs[path].json = "object"
    /\ fs[path].has_cookies_key /\ fs[path].has_origins_key

\* test_session and the exit code of the script
TestSession ==
    /\ pc = "idle"
    /\ NoLogin
    /\ op' = "test_session" /\ arg' = None
    /\ LET home_result == CheckSessionFile(files, HomeSessionPath)
           project_result == CheckSessionFile(files, ProjectSessionPath)
       IN result' = IF home_result \/ project_result THEN "0" ELSE "1"
    /\ UNCHANGED <<files, now, client, handles, listing>>

(***************************************************************************)
(* src/manage_sessions.py: remove_session(args) without --username         *)
(***************************************************************************)
DigitValue(c) ==
    CASE c = "0" -> 0 [] c = "1" -> 1 [] c = "2" -> 2 [] c = "3" -> 3 [] c = "4" -> 4
      [] c = "5" -> 5 [] c = "6" -> 6 [] c = "7" -> 7 [] c = "8" -> 8 [] c = "9" -> 9
      [] OTHER -> -1

\* int(choice) of a string of decimal digits; -1 when int raises ValueError
RECURSIVE IntOf(_)
IntOf(choice) ==
    IF choice = <<>> THEN -1
    ELSE IF DigitValue(choice[Len(choice)]) = -1 THEN -1
    ELSE IF Len(choice) = 1 THEN DigitValue(choice[1])
    ELSE IF IntOf(SubSeq(choice, 1, Len(choice) - 1)) = -1 THEN -1
    ELSE 10 * IntOf(SubSeq(choice, 1, Len(choice) - 1)) + DigitValue(choice[Len(choice)])

\* the answers typed at the two prompts
Choices ==
    {<<"q">>, <<"Q">>, <<"x">>, <<>>, <<"0">>, <<"1">>, <<"2">>, <<"3">>, <<"4">>,
     <<"5">>, <<"1", "0">>}
Confirms == {<<"y">>, <<"Y">>, <<"n">>}

\* the prompt for a number gave a username: the list is not empty, the
\* answer is not q, and it is the number of an entry
Picked(listed, choice) ==
    /\ listed # <<>>
    /\ Lower(choice) # <<"q">>
    /\ IntOf(choice) # -1
    /\ 0 <= IntOf(choice) - 1 /\ IntOf(choice) - 1 < Len(listed)

\* username = sessions[idx].get('username', 'default')
PickedUsername(listed, choice) == listed[IntOf(choice)].username

\* the whole command: list_sessions, the two prompts, then
\* InstagramClient.remove_session(username)
\* refused: the operating system refuses the unlink of remove_session
CliRemove(choice, confirm, refused) ==
    /\ pc = "idle"
    /\ NoLogin
    /\ op' = "cli_remove"
    /\ typed' = <<choice, confirm>>
    /\ \E globbed \in Orders(GlobSessionFiles(files)) :
         LET session_files == ExistingFiles(files, globbed \o <<DefaultSessionFile>>)
         IN \E times \in ClockReadings(files, session_files, now, TRUE) :
              LET entries == Entries(files, session_files, times)
                  listed == SortedDescending(entries)
              IN /\ read_order' = entries
                 /\ now' = LastReading(times, now)
                 /\ IF SortRaises(entries)
                    THEN /\ ~refused
                         /\ sessions' = <<>> /\ arg' = None
                         /\ result' = "raise" /\ files' = files
                    ELSE /\ sessions' = listed
                         /\ IF ~Picked(listed, choice)
                            THEN ~refused /\ arg' = None /\ result' = "none" /\ files' = files
                            ELSE /\ arg' = PickedUsername(listed, choice)
                                 /\ IF Lower(confirm) # <<"y">>
                                    THEN ~refused /\ result' = "none" /\ files' = files
                                    ELSE IF ~Exists(RemovedFile(arg'))
                                         THEN ~refused /\ result' = "False" /\ files' = files
                                         ELSE IF refused
                                              THEN result' = "False" /\ files' = files
                                              ELSE /\ result' = "True"
                                                   /\ files' = Unlink(files, RemovedFile(arg'))
    /\ UNCHANGED <<client, handles>>

(***************************************************************************)
(* Specifications                                                          *)
(***************************************************************************)
EmptyDirectory == [f \in {} |-> NoMetadata]

\* a client just constructed for username u
Constructed(u) ==
    /\ username = u
    /\ session_path = SessionPathFor(u)
    /\ is_logged_in = FALSE
    /\ current_username = None
    /\ page = FALSE /\ browser = FALSE /\ playwright = FALSE
    /\ pc = "idle" /\ retry_count = 0 /\ max_retries = 0 /\ attempts = 0
    /\ outcome = "none"
    /\ op = "construct" /\ arg = u /\ result = "none"
    /\ sessions = <<>> /\ read_order = <<>> /\ typed = <<>>

\* Spec: clients working on a session directory that starts empty
Init ==
    /\ files = EmptyDirectory
    /\ now = 0
    /\ \E u \in ConstructorUsernames : Constructed(u)

ManualLoginStep(may_raise) ==
    \/ \E stage \in InitStages : AttemptInitFails(stage, may_raise)
    \/ \E o \in {"playwright_error", "timeout", "other_exception", "login_url"},
          r \in Raising(may_raise, <<TRUE, TRUE, TRUE>>) : AttemptFails(o, r)
    \/ \E r \in Raising(may_raise, <<TRUE, TRUE, TRUE>>) : AttemptVerifyFails(r)
    \/ \E e \in PageUsernames, save \in SaveOutcomes,
          r \in Raising(may_raise, <<TRUE, TRUE, TRUE>>) : AttemptSucceeds(e, save, r)
    \/ ManualLoginExhausted

\* manual_login is called with no retry or with the largest number of
\* retries; SpecBrowser has every number between them
Next ==
    \/ \E u \in ConstructorUsernames : Construct(u)
    \/ \E m \in {0, MaxRetries} : ManualLoginCall(m)
    \/ ManualLoginStep(FALSE)
    \/ \E answer \in PageAnswers, e \in PageUsernames : VerifyLoginStatus(answer, e)
    \/ \E write \in WriteOutcomes : LoadSession(write)
    \/ \E u \in RemoveUsernames, refused \in BOOLEAN : RemoveSession(u, refused)
    \/ Tick

Spec == Init /\ [][Next]_vars

\* SpecBrowser: the browser handles of one client over its manual_login calls,
\* where every close()/stop() call may raise
NextBrowser ==
    \/ \E m \in 0..MaxRetries : ManualLoginCall(m)
    \/ ManualLoginStep(TRUE)
    \/ \E answer \in PageAnswers, e \in PageUsernames : VerifyLoginStatus(answer, e)

\* the clock has reached the end of the modelled time: the browser handles and
\* the retry loop do not depend on it
InitBrowserSpec ==
    /\ files = EmptyDirectory
    /\ now = MaxTime
    /\ \E u \in ConstructorUsernames : Constructed(u)

SpecBrowser == InitBrowserSpec /\ [][NextBrowser]_vars

\* FairBrowser: SpecBrowser where a manual_login call that can take a step
\* takes it: the program is sequential and every browser call it blocks on
\* returns or raises (wait_for_url within its timeout)
FairBrowser == SpecBrowser /\ WF_vars(ManualLoginStep(TRUE))

\* SpecLoad: load_session on a session file of any stored shape, at any time
SeqsUpTo(S, n) == UNION {[1..k -> S] : k \in 0..n}

LoadCookies ==
    {Cookie("csrftoken", TRUE, MaxTime), Cookie("sessionid", FALSE, 0)}
    \cup {Cookie("sessionid", TRUE, e) : e \in -1..MaxTime}

JsonUsernames ==
    {[t |-> "absent", v |-> <<>>], [t |-> "null", v |-> <<>>],
     [t |-> "string", v |-> <<>>], [t |-> "string", v |-> al]}

StoredMetadata ==
    {Metadata(u, 0, has_last, 0) : u \in JsonUsernames, has_last \in BOOLEAN}

StoredFiles ==
    {SessionFile(TRUE, cookies, TRUE, md, 0) :
        cookies \in SeqsUpTo(LoadCookies, MaxCookies), md \in StoredMetadata}
    \cup {SessionFile(TRUE, cookies, FALSE, NoMetadata, 0) :
        cookies \in SeqsUpTo(LoadCookies, MaxCookies)}
    \cup {SessionFile(FALSE, <<>>, TRUE, md, 0) : md \in StoredMetadata}
    \cup {SessionFile(FALSE, <<>>, FALSE, NoMetadata, 0)}

InitLoad ==
    /\ now \in 0..MaxTime
    /\ \E u \in ConstructorUsernames :
         /\ Constructed(u)
         /\ \/ files = EmptyDirectory
            \/ \E doc \in StoredFiles : files = WriteFile(EmptyDirectory, SessionPathFor(u), doc)

NextLoad == (\E write \in WriteOutcomes : LoadSession(write)) \/ Tick

SpecLoad == InitLoad /\ [][NextLoad]_vars

\* SpecList: list_sessions and remove_session on a directory of any content
OtherFile == <<"n", "o", "t", "e", "s">>
ListedNames == {UserSessionFile(al), UserSessionFile(Bo), DefaultSessionFile}

ListedFiles ==
    {SessionFile(TRUE, <<>>, TRUE, Metadata([t |-> "string", v |-> al], 0, TRUE, last), 0) :
        last \in 0..MaxTime}
    \cup {SessionFile(TRUE, <<>>, TRUE, Metadata([t |-> "null", v |-> <<>>], 0, FALSE, 0), 0)}
    \cup {SessionFile(TRUE, <<>>, FALSE, NoMetadata, mtime) : mtime \in 0..MaxTime}

\* the records of this specification hold no cookie, so no entry depends on
\* the readings of the clock; the clock is at its bound and reads the same
\* for every file
InitList ==
    /\ now = MaxTime
    /\ Constructed(None)
    /\ \E D \in SUBSET ListedNames, other \in BOOLEAN :
         \E fs \in [D -> ListedFiles] :
            files = IF other
                    THEN WriteFile(fs, OtherFile, SessionFile(FALSE, <<>>, FALSE, NoMetadata, 0))
                    ELSE fs

NextList ==
    \/ ListSessions
    \/ \E u \in RemoveUsernames, refused \in BOOLEAN : RemoveSession(u, refused)

SpecList == InitList /\ [][NextList]_vars

\* SpecRaw: the session store on files of any content, malformed ones and
\* the bare shape included
LiveCookie == Cookie("sessionid", TRUE, MaxTime)

RawCookies ==
    {<<>>, <<LiveCookie>>, <<Cookie("sessionid", TRUE, 0)>>,
     <<NotACookie, LiveCookie>>, <<LiveCookie, NotACookie>>}

RawMetadata ==
    {Metadata([t |-> "string", v |-> al], 0, TRUE, 0),
     [Metadata([t |-> "string", v |-> al], 0, TRUE, 0) EXCEPT !.last_used_is_number = FALSE]}

RawFiles ==
    {SessionFile(TRUE, cookies, TRUE, md, 0) : cookies \in RawCookies, md \in RawMetadata}
    \cup {SessionFile(TRUE, cookies, FALSE, NoMetadata, 0) : cookies \in RawCookies}
    \cup {[SessionFile(TRUE, cookies, TRUE, NoMetadata, 0) EXCEPT !.metadata_is_dict = FALSE] :
            cookies \in RawCookies}
    \cup {[SessionFile(TRUE, <<>>, FALSE, NoMetadata, 0) EXCEPT !.storage_state_is_dict = FALSE]}
    \cup {NotJson(kind, 0) : kind \in {"malformed", "array", "number"}}
    \cup {BareFile(cookies, TRUE, 0) : cookies \in {<<>>, <<LiveCookie>>}}

InitRaw ==
    /\ now \in 0..MaxTime
    /\ \E u \in {None, Al} :
         /\ Constructed(u)
         /\ \E own \in SUBSET {SessionPathFor(u)}, second \in SUBSET {UserSessionFile(Bo)} :
              \E fs \in [own -> RawFiles], gs \in [second -> RawMetadata] :
                 files = [f \in own \cup second |->
                            IF f \in own THEN fs[f]
                            ELSE SessionFile(TRUE, <<>>, TRUE, gs[f], 0)]

NextRaw ==
    \/ \E write \in WriteOutcomes : LoadSession(write)
    \/ ListSessions
    \/ \E u \in RemoveUsernames, refused \in BOOLEAN : RemoveSession(u, refused)
    \/ Tick

SpecRaw == InitRaw /\ [][NextRaw]_vars

\* SpecCheck: the session check next to a client that uses the project
\* directory and logs in
CheckedFiles ==
    {NotJson("malformed", 0), NotJson("array", 0),
     BareFile(<<>>, TRUE, 0), BareFile(<<LiveCookie>>, TRUE, 0), BareFile(<<LiveCookie>>, FALSE, 0),
     SessionData(<<LiveCookie>>, al, 0, 0)}

InitCheck ==
    /\ now = 0
    /\ \E u \in ConstructorUsernames : Constructed(u)
    /\ \E D \in SUBSET {HomeSessionPath, ProjectSessionPath} : files \in [D -> CheckedFiles]

NextCheck ==
    \/ TestSession
    \/ \E m \in 0..MaxRetries : ManualLoginCall(m)
    \/ ManualLoginStep(FALSE)

SpecCheck == InitCheck /\ [][NextCheck]_vars

\* SpecCli: the remove command of the CLI on a directory of session records
CliFiles ==
    {SessionFile(TRUE, <<>>, TRUE, Metadata(u, 0, TRUE, last), 0) :
        u \in {[t |-> "null", v |-> <<>>], [t |-> "string", v |-> al]}, last \in {0, MaxTime}}

InitCli ==
    /\ now = 0
    /\ Constructed(None)
    /\ \E D \in SUBSET ListedNames : files \in [D -> CliFiles]

\* one run of the command in a process
NextCli ==
    /\ op = "construct"
    /\ \E choice \in Choices, confirm \in Confirms, refused \in BOOLEAN :
         CliRemove(choice, confirm, refused)

SpecCli == InitCli /\ [][NextCli]_vars

(***************************************************************************)
(* Claims                                                                  *)
(***************************************************************************)
\* the stored cookie list of file f holds a cookie named sessionid whose
\* expires value is strictly greater than t
HasLiveSessionid(fs, f, t) ==
    /\ f \in DOMAIN fs
    /\ fs[f].has_storage_state
    /\ \E i \in DOMAIN fs[f].cookies :
         /\ fs[f].cookies[i].name = "sessionid"
         /\ fs[f].cookies[i].has_expires
         /\ fs[f].cookies[i].expires > t

\* a call of load_session, whatever becomes of its write-back
Load == \E write \in WriteOutcomes : LoadSession(write)

\* C1: load_session at time now returns True if and only if the stored file
\* has the storage_state key and its cookie list holds a sessionid cookie with
\* expires > now; a missing key, no sessionid cookie, a missing expires and
\* expires <= now (expires = now included) all give False. The True of a file
\* with metadata needs the write of the new last_used to complete: no call
\* returns True without such a cookie, and a call whose write-back is not
\* refused returns True with one.
C1_LoadValidIffLiveSessionid ==
    [][ /\ (Load /\ result' = "True") => HasLiveSessionid(files, session_path, now)
        /\ LoadSession("written") =>
              (result' = "True" <=> HasLiveSessionid(files, session_path, now))
      ]_vars

\* C1 witness: a load returned True on a file whose first sessionid cookie has
\* no expires and whose second one is still live
C1_Witness ==
    /\ op = "load_session" /\ result = "True"
    /\ session_path \in DOMAIN files
    /\ Len(files[session_path].cookies) = 2
    /\ files[session_path].cookies[1] = Cookie("sessionid", FALSE, 0)
    /\ files[session_path].cookies[2].name = "sessionid"
    /\ files[session_path].cookies[2].expires > now

\* manual_login has just written a session record: the dump completed
SaveWrote ==
    /\ pc = "loop" /\ outcome' = "success"
    /\ session_path' \in DOMAIN files'
    /\ files'[session_path'].json = "object"
    /\ session_path' \in DOMAIN files => files'[session_path'] # files[session_path']

\* C2: _save_session at time t = now writes a metadata block holding the
\* resolved username, created_at = t and last_used >= t; a load_session of a
\* stored file, when its write-back completes or is refused before the file
\* is opened, leaves the block's username and created_at as written and its
\* last_used at a time >= the write time, the time of the load when it succeeds.
C2_MetadataRoundTrip ==
    [][ /\ SaveWrote =>
            LET md == files'[session_path'].metadata
            IN /\ files'[session_path'].has_metadata
               /\ JsonGetStr(md.username) = current_username'
               /\ md.created_at = now
               /\ md.has_last_used /\ md.last_used >= now
        /\ ((LoadSession("written") \/ LoadSession("unopened"))
                /\ session_path \in DOMAIN files
                /\ files[session_path].json = "object") =>
            LET old == files[session_path].metadata
                new == files'[session_path].metadata
            IN /\ session_path \in DOMAIN files'
               /\ files'[session_path].has_metadata
               /\ new.username = old.username
               /\ new.created_at = old.created_at
               /\ new.has_last_used
               /\ new.last_used >= old.created_at
               /\ new.last_used >= old.last_used
               /\ result' = "True" => new.last_used >= now
      ]_vars

\* C2 witness: a session written at time 0 was reloaded later, and its
\* last_used moved on while created_at stayed
C2_Witness ==
    /\ op = "load_session" /\ result = "True"
    /\ session_path \in DOMAIN files
    /\ files[session_path].metadata.created_at = 0
    /\ files[session_path].metadata.last_used > 0
    /\ JsonGetStr(files[session_path].metadata.username) = al

\* C3 (as claimed): every load_session that returns True has set last_used in
\* the file to the time of the load, whatever the file holds besides
\* storage_state.
C3_EveryLoadTouches ==
    [][(Load /\ result' = "True") =>
          /\ files'[session_path].metadata.has_last_used
          /\ files'[session_path].metadata.last_used >= now
          /\ files'[session_path].metadata.last_used <= now'
      ]_vars

\* C3 (amended): every load_session that returns True on a file that has the
\* metadata key has set last_used in the file to the time of the load.
C3_LoadWithMetadataTouches ==
    [][(Load /\ result' = "True" /\ files[session_path].has_metadata) =>
          /\ files'[session_path].metadata.has_last_used
          /\ files'[session_path].metadata.last_used >= now
          /\ files'[session_path].metadata.last_used <= now'
      ]_vars

\* C3 witness: a load at a time after 0 returned True and stamped the file,
\* whose last_used key was missing or 0 before
C3_Witness ==
    /\ op = "load_session" /\ result = "True"
    /\ session_path \in DOMAIN files
    /\ files[session_path].has_metadata
    /\ files[session_path].metadata.has_last_used
    /\ files[session_path].metadata.last_used = now
    /\ now > 0

\* C4: remove_session(u) returns False and changes nothing when the directory
\* has no file <lower(u)>_session.json; otherwise it returns True, that file is
\* gone, and every other file is there with its content unchanged. An unlink
\* the operating system refuses gives False and changes nothing.
C4_RemoveExactlyThatFile ==
    [][\A u \in RemoveUsernames, refused \in BOOLEAN : RemoveSession(u, refused) =>
          LET f == Lower(u) \o SessionSuffix
          IN IF f \notin DOMAIN files \/ refused
             THEN result' = "False" /\ files' = files
             ELSE /\ result' = "True"
                  /\ DOMAIN files' = DOMAIN files \ {f}
                  /\ \A g \in DOMAIN files' : files'[g] = files[g]
      ]_vars

\* C4 witness: the session of "Al" was removed while the default session,
\* another user's session and a foreign file stayed
C4_Witness ==
    /\ op = "remove_session" /\ arg = Al /\ result = "True"
    /\ DOMAIN files = {DefaultSessionFile, UserSessionFile(Bo), OtherFile}

\* the entries of a list whose last_used is k, in order
WithLastUsed(entries, k) == SelectSeq(entries, LAMBDA e : e.last_used = k)

\* C5: the list list_sessions returns is ordered by last_used descending; the
\* entries of equal last_used are in the order in which they were read; an
\* entry whose metadata has no last_used has last_used 0.
C5_SortedStable ==
    op = "list_sessions" =>
      /\ \A i, j \in DOMAIN sessions : i < j => sessions[i].last_used >= sessions[j].last_used
      /\ Len(sessions) = Len(read_order)
      /\ \A k \in 0..MaxTime : WithLastUsed(sessions, k) = WithLastUsed(read_order, k)
      /\ \A i \in DOMAIN sessions :
           LET doc == files[sessions[i].file_name]
           IN (doc.has_metadata /\ ~doc.metadata.has_last_used) => sessions[i].last_used = 0

\* C5 witness: two different files of equal last_used were read behind one of
\* smaller last_used, and one without last_used was read first
C5_Witness ==
    /\ op = "list_sessions"
    /\ Len(read_order) = 4
    /\ ~files[read_order[1].file_name].metadata.has_last_used
    /\ files[read_order[1].file_name].has_metadata
    /\ read_order[2].last_used = 1
    /\ read_order[3].last_used = 1
    /\ read_order[2].file_name # read_order[3].file_name
    /\ sessions # read_order

\* C6 (as claimed): a client constructed with a username resolves that
\* username when it loads a session, whatever the metadata says.
C6_ConstructorArgumentFirst ==
    (op = "load_session" /\ result = "True" /\ Truthy(username)) =>
        current_username = username

\* C6 (amended): load_session resolves current_username to the metadata
\* username when that is non-empty, else to the constructor argument when that
\* is non-empty, else it stays unresolved.
C6_MetadataUsernameFirst ==
    (op = "load_session" /\ result = "True" /\ files[session_path].has_metadata) =>
        LET m == JsonGetStr(files[session_path].metadata.username)
        IN current_username = IF Truthy(m) THEN m
                              ELSE IF Truthy(username) THEN username ELSE None

\* C6 witness: a client constructed for "default" loaded a session whose
\* metadata names "al", and resolved "al"
C6_Witness ==
    /\ op = "load_session" /\ result = "True"
    /\ username = DefaultName
    /\ JsonGetStr(files[session_path].metadata.username) = al
    /\ current_username = al

\* C7: when manual_login has returned, the client references no page, no
\* browser and no playwright handle, also when a close call raised.
C7_HandlesReleased ==
    (pc = "idle" /\ op = "manual_login") => (~page /\ ~browser /\ ~playwright)

\* C8: manual_login makes at most max_retries attempts; every iteration of
\* its loop returns or adds exactly one to retry_count; a timed-out wait is
\* retried; with max_retries failed attempts the call returns False; and every
\* call returns.
C8_BoundedRetries ==
    /\ [](attempts <= max_retries /\ retry_count <= max_retries)
    /\ []((pc = "idle" /\ op = "manual_login" /\ retry_count >= max_retries) => result = "False")
    /\ [][pc = "loop" => (pc' = "idle" \/ retry_count' = retry_count + 1)]_vars
    /\ [][(pc = "loop" /\ attempts' = attempts + 1 /\ outcome' = "timeout") =>
            (pc' = "loop" /\ retry_count' = retry_count + 1)]_vars
    /\ (pc = "loop") ~> (pc = "idle")

\* C8 witness: a call with the largest max_retries returned False after that
\* many attempts, the last a timeout
C8_Witness ==
    /\ pc = "idle" /\ op = "manual_login" /\ result = "False"
    /\ max_retries = MaxRetries /\ attempts = MaxRetries /\ retry_count = MaxRetries
    /\ outcome = "timeout"

\* C9: the loop of manual_login runs again only after a failed browser
\* initialisation or a Playwright error; a failed verification, a page still on
\* the login URL and any other exception end the call with False at once.
C9_RetryOnlyTransient ==
    [][ /\ (pc = "loop" /\ pc' = "loop") =>
              outcome' \in {"init_failed", "playwright_error", "timeout"}
        /\ (pc = "loop" /\ attempts' = attempts + 1
              /\ outcome' \in {"verify_failed", "login_url", "other_exception"}) =>
              (pc' = "idle" /\ result' = "False")
      ]_vars

\* C9 witness: a call allowed to retry returned False after one attempt whose
\* verification failed
C9_Witness ==
    /\ pc = "idle" /\ op = "manual_login" /\ result = "False"
    /\ max_retries = MaxRetries /\ attempts = 1 /\ retry_count = 0
    /\ outcome = "verify_failed"

\* the account username a stored session record carries
RecordUsername(f) == JsonGetStr(files[f].metadata.username)

\* C10: no two files of the directory hold records whose usernames lower-case
\* to the same name, and the default file, which stands for "no username",
\* holds no record of a named account.
C10_OneFilePerUsername ==
    /\ \A f, g \in DOMAIN files :
         (Truthy(RecordUsername(f)) /\ Truthy(RecordUsername(g))
            /\ Lower(RecordUsername(f)) = Lower(RecordUsername(g))) => f = g
    /\ DefaultSessionFile \in DOMAIN files => ~Truthy(RecordUsername(DefaultSessionFile))

\* the upper-case letters of the alphabet, and two characters that are the
\* same letter up to case
UpperCase == {"A", "B", "D", "Q", "Y"}
SameLetter(c, d) ==
    c = d \/ <<c, d>> \in {<<"A", "a">>, <<"B", "b">>, <<"D", "d">>, <<"Q", "q">>, <<"Y", "y">>}

\* C11: a client constructed without a username has the session path
\* default_session.json, whose name contains session.json; a client
\* constructed for u has <u in lower case>_session.json, letter by letter and
\* with no upper-case letter left; the path is a function of u alone, and
\* constructing for the already lower-cased name gives the same path.
C11_SessionPathDeterministic ==
    op = "construct" =>
        IF arg = None \/ arg = <<>>
        THEN /\ session_path = DefaultName \o <<"_">> \o SessionJson
             /\ EndsWith(session_path, SessionJson)
        ELSE LET stem == SubSeq(session_path, 1, Len(session_path) - Len(SessionSuffix))
             IN /\ EndsWith(session_path, <<"_">> \o SessionJson)
                /\ Len(stem) = Len(arg)
                /\ \A i \in DOMAIN stem :
                     SameLetter(arg[i], stem[i]) /\ stem[i] \notin UpperCase
                /\ SessionPathFor(arg) = session_path
                /\ SessionPathFor(stem) = session_path

\* C11 witness: a client constructed for "Al", on a directory in which an
\* earlier client saved al_session.json, has the path al_session.json
C11_Witness ==
    /\ op = "construct" /\ arg = Al
    /\ session_path = <<"a", "l">> \o SessionSuffix
    /\ session_path \in DOMAIN files

\* file f is missing or holds no well-typed record of the wrapped shape with
\* a live sessionid cookie
NotLoadable(fs, f, t) ==
    \/ f \notin DOMAIN fs
    \/ fs[f].json # "object"
    \/ ~fs[f].has_storage_state
    \/ ~fs[f].storage_state_is_dict
    \/ \E i \in DOMAIN fs[f].cookies : ~fs[f].cookies[i].is_dict
    \/ fs[f].has_metadata /\ ~fs[f].metadata_is_dict
    \/ ~HasLiveSessionid(fs, f, t)

\* C12: no session-store operation raises: load_session returns False on a
\* missing file, malformed JSON, JSON that is no object, a storage_state or a
\* cookie entry of the wrong type, the bare shape and a missing cookie;
\* list_sessions returns a list in which no such file is valid; remove_session
\* returns a boolean. A cookie that is not live at time 0 is live at no time
\* of the clock.
C12_NoExceptionPropagates ==
    /\ result # "raise"
    /\ (op = "load_session" /\ NotLoadable(files, session_path, 0)) => result = "False"
    /\ op = "list_sessions" =>
         \A i \in DOMAIN sessions :
            sessions[i].is_valid => ~NotLoadable(files, sessions[i].file_path, 0)
    /\ op = "remove_session" => result \in {"True", "False"}

\* a file of the bare shape {cookies, origins}, and one whose cookie list
\* holds a live sessionid cookie
IsBare(doc) == doc.json = "object" /\ doc.has_cookies_key /\ ~doc.has_storage_state
BareLive(fs, f, t) ==
    /\ f \in DOMAIN fs
    /\ IsBare(fs[f])
    /\ \E i \in DOMAIN fs[f].cookies :
         /\ fs[f].cookies[i].is_dict
         /\ fs[f].cookies[i].name = "sessionid"
         /\ fs[f].cookies[i].has_expires
         /\ fs[f].cookies[i].expires > t

\* C13 (as claimed): a file of the bare shape with a live sessionid cookie is
\* loaded like the wrapped shape (load_session returns True and the client is
\* logged in) and is listed as valid.
C13_BareShapeRecognized ==
    /\ (op = "load_session" /\ BareLive(files, session_path, now)) =>
          (result = "True" /\ is_logged_in)
    /\ (op = "list_sessions" /\ result # "raise") =>
          \A i \in DOMAIN sessions :
             BareLive(files, sessions[i].file_path, now) => sessions[i].is_valid

\* C13 (amended): a file of the bare shape is read without an exception and is
\* treated as an old-format file: load_session returns False and the client is
\* not logged in; list_sessions lists it with is_valid False and with
\* created_at and last_used taken from the file's modification time.
C13_BareShapeInvalid ==
    /\ (op = "load_session" /\ session_path \in DOMAIN files /\ IsBare(files[session_path])) =>
          (result = "False" /\ ~is_logged_in)
    /\ (op = "list_sessions" /\ result # "raise") =>
          /\ \A f \in GlobSessionFiles(files) :
                IsBare(files[f]) => \E i \in DOMAIN sessions : sessions[i].file_path = f
          /\ \A i \in DOMAIN sessions :
                IsBare(files[sessions[i].file_path]) =>
                    /\ ~sessions[i].is_valid
                    /\ sessions[i].created_at = files[sessions[i].file_path].mtime
                    /\ sessions[i].last_used = files[sessions[i].file_path].mtime

\* C13 witness: load_session on a bare file with a live sessionid cookie
\* returned False
C13_Witness ==
    /\ op = "load_session" /\ result = "False"
    /\ BareLive(files, session_path, now)

\* file f exists, parses as a JSON object and has the keys cookies and origins
PassesStructureCheck(f) ==
    /\ f \in DOMAIN files
    /\ files[f].json = "object"
    /\ files[f].has_cookies_key
    /\ files[f].has_origins_key

\* C14: the session check exits with 0 if and only if one of its two files
\* exists, is a JSON object and passes the structure check, and with 1
\* otherwise; and the file a client saved in a successful manual_login is
\* reported as correctly saved by check_session_file.
C14_CheckReportsSavedSession ==
    /\ op = "test_session" =>
         /\ result \in {"0", "1"}
         /\ result = "0" <=>
              (PassesStructureCheck(HomeSessionPath) \/ PassesStructureCheck(ProjectSessionPath))
    /\ (pc = "idle" /\ op = "manual_login" /\ result = "True" /\ session_path \in DOMAIN files) =>
         CheckSessionFile(files, session_path)

\* C15: when manual_login returns True, the file at session_path holds the
\* storage state captured in this login and a metadata block with the resolved
\* username, created_at the time of the save and last_used not before it.
C15_SuccessMeansPersisted ==
    [][(pc = "loop" /\ pc' = "idle" /\ result' = "True") =>
          /\ session_path' \in DOMAIN files'
          /\ files'[session_path'].has_storage_state
          /\ files'[session_path'].cookies \in BrowserStorageStates(now)
          /\ files'[session_path'].has_metadata
          /\ JsonGetStr(files'[session_path'].metadata.username) = current_username'
          /\ files'[session_path'].metadata.created_at = now
          /\ files'[session_path'].metadata.has_last_used
          /\ files'[session_path'].metadata.last_used >= now
      ]_vars

\* C16: on a client that is not logged in, load_session leaves is_logged_in
\* True exactly when it returns True; it returns True on a well-typed file with
\* a sessionid cookie that expires after now when the write of the new
\* last_used is not refused, and False on a missing file, on
\* a file that is no JSON object and on one without such a cookie.
C16_LoggedInIffLoaded ==
    [][(Load /\ ~is_logged_in) =>
          /\ is_logged_in' <=> result' = "True"
          /\ (LoadSession("written") /\ ~NotLoadable(files, session_path, now))
                => result' = "True"
          /\ (\/ session_path \notin DOMAIN files
              \/ files[session_path].json # "object"
              \/ ~HasLiveSessionid(files, session_path, now)) => result' = "False"
      ]_vars

\* C16 witness: a load after the only sessionid cookie had expired returned
\* False and the client is not logged in
C16_Witness ==
    /\ op = "load_session" /\ result = "False" /\ ~is_logged_in
    /\ session_path \in DOMAIN files
    /\ files[session_path].has_storage_state
    /\ files[session_path].cookies = <<Cookie("sessionid", TRUE, 0)>>
    /\ now > 0

\* C17: no file_path is in two entries of the list list_sessions returns.
C17_NoDuplicateEntries ==
    op = "list_sessions" =>
        \A i, j \in DOMAIN sessions :
            sessions[i].file_path = sessions[j].file_path => i = j

\* C18: after the remove command without --username, the file of the entry
\* whose number was typed is gone if the confirmation was y, and every other
\* listed file is still there; after q, a text that is no number of an entry,
\* or another confirmation, every listed file is still there.
C18_CliRemovesPickedEntry ==
    (op = "cli_remove" /\ result # "raise") =>
        LET k == IntOf(typed[1])
            deleting == /\ typed[1] \notin {<<"q">>, <<"Q">>}
                        /\ k \in 1..Len(sessions)
                        /\ typed[2] \in {<<"y">>, <<"Y">>}
        IN \A i \in DOMAIN sessions :
              sessions[i].file_path \in DOMAIN files
                 <=> ~(deleting /\ sessions[i].file_path = sessions[k].file_path)

\* C19: a load_session that returns False leaves every file as it was; one
\* that returns True leaves every other file as it was and changes nothing of
\* the session file but last_used in its metadata (and the file's
\* modification time): the JSON shape, storage_state and its cookies,
\* metadata.username and metadata.created_at stay.
C19_LoadChangesOnlyLastUsed ==
    [][Load =>
          IF result' = "False"
          THEN files' = files
          ELSE /\ DOMAIN files' = DOMAIN files
               /\ \A f \in DOMAIN files \ {session_path} : files'[f] = files[f]
               /\ LET old == files[session_path]
                      new == files'[session_path]
                  IN new = [old EXCEPT !.metadata.last_used = new.metadata.last_used,
                                       !.metadata.has_last_used = new.metadata.has_last_used,
                                       !.metadata.last_used_is_number =
                                            new.metadata.last_used_is_number,
                                       !.mtime = new.mtime]
      ]_vars

====
